---- MODULE Spec2Model ----
\* Model of practicaPython/SciptCityblender.py: a script that runs inside
\* Blender and builds a city scene in four steps (clear_scene, create_terrain,
\* create_buildings, setup_scene).  The script's module-level parameters are
\* state fixed at start; the host's scene graph (objects, collections,
\* materials, render settings) is the state the four functions mutate.
\* Float arithmetic is modelled by exact rationals <<num, den>>, den > 0.
EXTENDS Integers, Sequences, FiniteSets, TLC

VARIABLES
    \* script parameters (module globals, lines 10-20)
    grid_size, x_subdivisions, y_subdivisions,
    terrain_height_scale, terrain_wave_frequency,
    building_min_height, building_max_height,
    street_width_factor, building_embed_depth,
    \* host scene state (bpy.data / bpy.context.scene)
    objects,        \* id -> object record (bpy.data.objects)
    scene_objects,  \* ids linked directly to scene.collection
    collections,    \* name -> [objs, in_scene, ext_users] (bpy.data.collections)
    materials,      \* name -> datablock id (bpy.data.materials)
    light_data,     \* number of datablocks in bpy.data.lights
    camera_data,    \* number of datablocks in bpy.data.cameras
    scene_camera,   \* scene.camera: object id, 0 = None
    render,         \* engine / device / samples / denoising
    host_gpu,       \* how the host answers the assignment cycles.device = 'GPU'
    next_id,        \* next fresh datablock id
    \* script execution state
    pc, run, terrain_object, built, printed

vars == <<grid_size, x_subdivisions, y_subdivisions, terrain_height_scale,
          terrain_wave_frequency, building_min_height, building_max_height,
          street_width_factor, building_embed_depth, objects, scene_objects,
          collections, materials, light_data, camera_data, scene_camera,
          render, host_gpu, next_id, pc, run, terrain_object, built, printed>>

params == <<grid_size, x_subdivisions, y_subdivisions, terrain_height_scale,
            terrain_wave_frequency, building_min_height, building_max_height,
            street_width_factor, building_embed_depth, host_gpu>>

\* ---------------------------------------------------------------- bounds
\* x_subdivisions ranges over 0..MaxSubX, y_subdivisions over SubdivisionsY.
MaxSubX == 1
MaxRuns == 2
MaxInitObjs == 1
SubdivisionsY == {0, 1, 2}

\* ------------------------------------------------------- exact arithmetic
Abs(n) == IF n < 0 THEN -n ELSE n

RECURSIVE GCD(_, _)
GCD(a, b) == IF b = 0 THEN a ELSE GCD(b, a % b)

Rat(n, d) ==
    LET s == IF d < 0 THEN -1 ELSE 1
        g == GCD(Abs(n), Abs(d))
    IN  <<(s * n) \div g, (s * d) \div g>>

Num(n) == <<n, 1>>
RAdd(a, b) == Rat(a[1] * b[2] + b[1] * a[2], a[2] * b[2])
RSub(a, b) == Rat(a[1] * b[2] - b[1] * a[2], a[2] * b[2])
RMul(a, b) == Rat(a[1] * b[1], a[2] * b[2])
RDiv(a, b) == Rat(a[1] * b[2], a[2] * b[1])
RLe(a, b) == a[1] * b[2] <= b[1] * a[2]
RLt(a, b) == a[1] * b[2] < b[1] * a[2]
Zero == Num(0)
Half == Rat(1, 2)

\* math.sin and math.cos, by their Taylor polynomials of degree 3 and 2.
Sin(x) == RSub(x, RDiv(RMul(x, RMul(x, x)), Num(6)))
Cos(x) == RSub(Num(1), RDiv(RMul(x, x), Num(2)))

\* ------------------------------------------------------------- terrain
\* bpy.ops.mesh.primitive_grid_add clamps a subdivision count to its minimum 1.
HostSubdiv(n) == IF n < 1 THEN 1 ELSE n

NumVerts(xs, ys) == (HostSubdiv(xs) + 1) * (HostSubdiv(ys) + 1)

\* Local x, y of grid vertex k (1-based, row-major): the grid spans
\* [-size/2, size/2] with HostSubdiv(n) equal cells per axis.
GridCoord(size, n, i) ==
    RAdd(RMul(size, Rat(-1, 2)), RDiv(RMul(Num(i), size), Num(HostSubdiv(n))))

VertX(size, xs, k) == GridCoord(size, xs, (k - 1) % (HostSubdiv(xs) + 1))
VertY(size, xs, ys, k) == GridCoord(size, ys, (k - 1) \div (HostSubdiv(xs) + 1))

\* The height (z1 * z2 + z3 * z4) * s / 2.0 that the vertex loop adds.
TerrainHeight_Additive(x, y, f, s) ==
    LET offset_x == RMul(x, f)
        offset_y == RMul(y, f)
        z1 == Sin(offset_x)
        z2 == Cos(offset_y)
        z3 == Sin(RAdd(RMul(offset_x, Half), Num(1)))
        z4 == Cos(RMul(offset_y, Half))
    IN  RDiv(RAdd(RAdd(RMul(z1, z2), RMul(z3, z4)), s), Num(2))

TerrainHeight(x, y, f, s) ==
    LET offset_x == RMul(x, f)
        offset_y == RMul(y, f)
        z1 == Sin(offset_x)
        z2 == Cos(offset_y)
        z3 == Sin(RAdd(RMul(offset_x, Half), Num(1)))
        z4 == Cos(RMul(offset_y, Half))
    IN  RDiv(RMul(RAdd(RMul(z1, z2), RMul(z3, z4)), s), Num(2))

TerrainVerts(size, xs, ys, f, s) ==
    [k \in 1..NumVerts(xs, ys) |->
        LET x == VertX(size, xs, k)
            y == VertY(size, xs, ys, k)
        IN  <<x, y, TerrainHeight(x, y, f, s)>>]

\* ------------------------------------------------------------ host helpers
\* Blender keeps datablock names unique by a numeric suffix (.001, .002, ...).
UniqueName(objs, base, idx) ==
    LET used == {objs[i].name.dup : i \in {j \in DOMAIN objs :
                     objs[j].name.base = base /\ objs[j].name.idx = idx}}
        free == {n \in 0..Cardinality(DOMAIN objs) : n \notin used}
    IN  [base |-> base, idx |-> idx,
         dup |-> CHOOSE n \in free : \A m \in free : n <= m]

Origin == <<Zero, Zero, Zero>>

Obj(type, name, loc, dims, verts) ==
    [type |-> type, name |-> name, location |-> loc, dimensions |-> dims,
     verts |-> verts, material |-> ""]

\* Objects of the current view layer: linked to the scene collection or to a
\* collection that is a child of it.
ViewLayer(sobjs, colls) ==
    sobjs \cup UNION {colls[c].objs : c \in {d \in DOMAIN colls : colls[d].in_scene}}

\* select_by_type(type) followed by object.delete(): what is selected.
SelectedByType(objs, sobjs, colls, types) ==
    {i \in ViewLayer(sobjs, colls) : objs[i].type \in types}

DeleteObjects(objs, gone) == [i \in DOMAIN objs \ gone |-> objs[i]]

UnlinkObjects(colls, gone) ==
    [c \in DOMAIN colls |-> [colls[c] EXCEPT !.objs = @ \ gone]]

\* collection.users: the scene collection when it is a parent, plus the users
\* outside the current scene.
Users(coll) == (IF coll.in_scene THEN 1 ELSE 0) + coll.ext_users

\* clear_scene's pass over bpy.data.collections: an empty collection is
\* unlinked from the scene collection when it is its child, and removed when
\* no user is left after that.
PruneCollections(colls) ==
    LET unlinked(c) == IF colls[c].objs = {}
                       THEN [colls[c] EXCEPT !.in_scene = FALSE]
                       ELSE colls[c]
        removed == {c \in DOMAIN colls :
                       colls[c].objs = {} /\ Users(unlinked(c)) = 0}
    IN  [c \in DOMAIN colls \ removed |-> unlinked(c)]

\* terrain_obj.matrix_world @ vert.co: the terrain is only translated.
World(obj, co) ==
    <<RAdd(obj.location[1], co[1]), RAdd(obj.location[2], co[2]),
      RAdd(obj.location[3], co[3])>>

\* Extent of the z coordinates of a vertex list (the object's z dimension).
ZExtent(verts) ==
    LET zs == {verts[k][3] : k \in DOMAIN verts}
        hi == CHOOSE z \in zs : \A w \in zs : RLe(w, z)
        lo == CHOOSE z \in zs : \A w \in zs : RLe(z, w)
    IN  RSub(hi, lo)

\* ------------------------------------------------------------ buildings
ZeroSubdivisions_XOnly(xs, ys) == xs = 0

ZeroSubdivisions(xs, ys) == xs = 0 \/ ys = 0

CellWidth(size, n) == RDiv(size, Num(n))

BuildingSize_Widened(cell_width, swf) == RMul(cell_width, RAdd(Num(1), swf))

BuildingSize_StreetShare(cell_width, swf) == RMul(cell_width, swf)

BuildingSize(cell_width, swf) == RMul(cell_width, RSub(Num(1), swf))

BaseZ(terrain_z, embed) == RSub(terrain_z, embed)

CenterZ_FullHeight(base_z, height) == RAdd(base_z, height)

CenterZ(base_z, height) == RAdd(base_z, RDiv(height, Num(2)))

\* random.uniform(lo, hi): the draws the model distinguishes are the two ends.
Heights(lo, hi) == {lo, hi}

BuildingLocation(world_co, height, embed) ==
    <<world_co[1], world_co[2], CenterZ(BaseZ(world_co[3], embed), height)>>

LoopVertices_DropLast(verts) == 1..(Len(verts) - 1)

\* The vertices the placement loop visits, in order.
LoopVertices(verts) == 1..Len(verts)

\* bpy.data.collections["Buildings"], created and linked to the scene
\* collection only when no collection of that name exists.
BuildingCollection(colls) ==
    IF "Buildings" \in DOMAIN colls
    THEN colls
    ELSE colls @@ ("Buildings" :> [objs |-> {}, in_scene |-> TRUE, ext_users |-> 0])

\* -------------------------------------------------------- scene dressing
\* Lights and cameras setup_scene deletes before it creates its own.
DressingToDelete(objs, sobjs, colls) ==
    IF \E i \in DOMAIN objs : objs[i].type \in {"LIGHT", "CAMERA"}
    THEN SelectedByType(objs, sobjs, colls, {"LIGHT", "CAMERA"})
    ELSE {}

SelectDevice_NoFallback(host) == "GPU"

\* The device after the try/except of lines 200-210; a host that raises or
\* ignores the assignment of 'GPU' ends on 'CPU'.
SelectDevice(host) == IF host = "ok" THEN "GPU" ELSE "CPU"

DeviceMessage(host) ==
    CASE host = "ok" -> "GpuSet"
      [] host = "ignored" -> "GpuNotEffectiveUsingCpu"
      [] OTHER -> "GpuFailedUsingCpu"

UpsertMaterial_AlwaysNew(mats, name, id) == (name :> id) @@ mats

\* A material looked up by name and created only when absent.
UpsertMaterial(mats, name, id) ==
    IF name \in DOMAIN mats THEN mats ELSE mats @@ (name :> id)

TerrainName == [base |-> "Terrain", idx |-> 0, dup |-> 0]

\* terrain.data.materials and the Buildings objects' materials, lines 232-261.
AssignMaterials(objs, colls) ==
    LET inBuildings == IF "Buildings" \in DOMAIN colls
                       THEN colls["Buildings"].objs ELSE {}
    IN  [i \in DOMAIN objs |->
            IF i \in inBuildings /\ objs[i].type = "MESH"
            THEN [objs[i] EXCEPT !.material = "BuildingMaterial"]
            ELSE IF objs[i].name = TerrainName
            THEN [objs[i] EXCEPT !.material = "TerrainMaterial"]
            ELSE objs[i]]

\* ------------------------------------------------------------- actions
\* clear_scene(), lines 24-55.
ClearScene ==
    /\ pc = "clear"
    /\ LET gone == SelectedByType(objects, scene_objects, collections, {"MESH"})
       IN  /\ objects' = DeleteObjects(objects, gone)
           /\ scene_objects' = scene_objects \ gone
           /\ collections' = PruneCollections(UnlinkObjects(collections, gone))
    /\ pc' = "terrain"
    /\ UNCHANGED <<params, materials, light_data, camera_data, scene_camera,
                   render, next_id, run, terrain_object, built, printed>>

\* create_terrain(), lines 58-99.
CreateTerrain ==
    /\ pc = "terrain"
    /\ LET verts == TerrainVerts(grid_size, x_subdivisions, y_subdivisions,
                                 terrain_wave_frequency, terrain_height_scale)
           obj == Obj("MESH", UniqueName(objects, "Terrain", 0), Origin,
                      <<grid_size, grid_size, ZExtent(verts)>>, verts)
       IN  objects' = objects @@ (next_id :> obj)
    /\ scene_objects' = scene_objects \cup {next_id}
    /\ terrain_object' = next_id
    /\ next_id' = next_id + 1
    /\ pc' = "buildings"
    /\ UNCHANGED <<params, collections, materials, light_data, camera_data,
                   scene_camera, render, run, built, printed>>

\* create_buildings(terrain_object), lines 101-158, called when
\* terrain_object is not None (line 268).
CreateBuildings ==
    /\ pc = "buildings"
    /\ terrain_object # 0
    /\ pc' = "setup"
    /\ IF ZeroSubdivisions(x_subdivisions, y_subdivisions)
       THEN /\ printed' = printed \cup {"ErrSubdivisionsZero"}
            /\ UNCHANGED <<objects, collections, built, next_id>>
       ELSE LET terrain == objects[terrain_object]
                verts == terrain.verts
                loop == LoopVertices(verts)
                size_x == BuildingSize(CellWidth(grid_size, x_subdivisions),
                                       street_width_factor)
                size_y == BuildingSize(CellWidth(grid_size, y_subdivisions),
                                       street_width_factor)
                colls == BuildingCollection(collections)
                ids == {next_id + k - 1 : k \in loop}
            IN  \E height \in [loop -> Heights(building_min_height,
                                               building_max_height)] :
                  /\ objects' = objects @@
                       [i \in ids |->
                          LET k == i - next_id + 1
                          IN  Obj("MESH", UniqueName(objects, "Building", k - 1),
                                  BuildingLocation(World(terrain, verts[k]),
                                                   height[k],
                                                   building_embed_depth),
                                  <<size_x, size_y, height[k]>>, <<>>)]
                  /\ collections' =
                       [colls EXCEPT !["Buildings"].objs = @ \cup ids]
                  /\ built' = [k \in 1..Cardinality(loop) |-> next_id + k - 1]
                  /\ next_id' = next_id + Cardinality(loop)
                  /\ UNCHANGED printed
    /\ UNCHANGED <<params, scene_objects, materials, light_data, camera_data,
                   scene_camera, render, run, terrain_object>>

\* setup_scene(), lines 163-261.
SetupScene ==
    /\ pc = "setup"
    /\ LET gone == DressingToDelete(objects, scene_objects, collections)
           light == Obj("LIGHT", UniqueName(objects, "SunLightObj", 0),
                        <<RMul(grid_size, Rat(8, 10)), RMul(grid_size, Rat(-8, 10)),
                          RMul(grid_size, Rat(12, 10))>>, Origin, <<>>)
           cam == Obj("CAMERA", UniqueName(objects, "SceneCameraObj", 0),
                      <<RMul(grid_size, Rat(12, 10)), RMul(grid_size, Rat(-12, 10)),
                        RMul(grid_size, Rat(9, 10))>>, Origin, <<>>)
           objs == DeleteObjects(objects, gone) @@
                   (next_id :> light) @@ (next_id + 1 :> cam)
       IN  /\ objects' = AssignMaterials(objs, collections)
           /\ scene_objects' = (scene_objects \ gone) \cup {next_id, next_id + 1}
           /\ collections' = UnlinkObjects(collections, gone)
    /\ light_data' = light_data + 1
    /\ camera_data' = camera_data + 1
    /\ scene_camera' = next_id + 1
    /\ render' = [engine |-> "CYCLES", device |-> SelectDevice(host_gpu),
                  samples |-> 128, adaptive_min_samples |-> 64,
                  use_denoising |-> TRUE]
    /\ printed' = printed \cup {DeviceMessage(host_gpu)}
    /\ materials' = UpsertMaterial(
                        UpsertMaterial(materials, "TerrainMaterial", next_id + 2),
                        "BuildingMaterial", next_id + 3)
    /\ next_id' = next_id + 4
    /\ pc' = "done"
    /\ UNCHANGED <<params, run, terrain_object, built>>

\* The script is run again on the scene the last run left (lines 265-270).
Rerun ==
    /\ pc = "done"
    /\ run < MaxRuns
    /\ run' = run + 1
    /\ pc' = "clear"
    /\ terrain_object' = 0
    /\ built' = <<>>
    /\ printed' = {}
    /\ UNCHANGED <<params, objects, scene_objects, collections, materials,
                   light_data, camera_data, scene_camera, render, next_id>>

\* ---------------------------------------------------------- initial states
\* A starting scene: nm meshes, nl lights and nc cameras in the scene
\* collection, nb meshes in the collection named Buildings (which, when it
\* exists, may be a child of the scene collection and may have ext users
\* outside the scene).
InitObjects(nm, nl, nc, nb) ==
    [i \in 1..(nm + nl + nc + nb) |->
        IF i <= nm
        THEN Obj("MESH", [base |-> "Cube", idx |-> 0, dup |-> i - 1],
                 Origin, <<Num(2), Num(2), Num(2)>>, <<>>)
        ELSE IF i <= nm + nl
        THEN Obj("LIGHT", [base |-> "Light", idx |-> 0, dup |-> i - nm - 1],
                 Origin, Origin, <<>>)
        ELSE IF i <= nm + nl + nc
        THEN Obj("CAMERA", [base |-> "Camera", idx |-> 0, dup |-> i - nm - nl - 1],
                 Origin, Origin, <<>>)
        ELSE Obj("MESH", [base |-> "House", idx |-> 0, dup |-> i - nm - nl - nc - 1],
                 Origin, <<Num(1), Num(1), Num(1)>>, <<>>)]

InitMaterials(names, first) ==
    [n \in names |->
        CASE n = "Material" -> first
          [] n = "TerrainMaterial" -> first + 1
          [] OTHER -> first + 2]

ScriptStart ==
    /\ pc = "clear"
    /\ run = 1
    /\ terrain_object = 0
    /\ built = <<>>
    /\ printed = {}

InitRender ==
    render = [engine |-> "EEVEE", device |-> "CPU", samples |-> 0,
              adaptive_min_samples |-> 0, use_denoising |-> FALSE]

\* Starting scenes of every shape, small grids, one building height.
Init ==
    /\ grid_size = Num(2)
    /\ \E sub \in {<<0, 1>>, <<1, 0>>, <<1, 1>>} :
         /\ x_subdivisions = sub[1]
         /\ y_subdivisions = sub[2]
    /\ terrain_height_scale = Zero
    /\ terrain_wave_frequency = Zero
    /\ building_min_height = Num(1)
    /\ building_max_height = Num(1)
    /\ street_width_factor = Half
    /\ building_embed_depth = Rat(1, 10)
    /\ host_gpu \in {"ok", "ignored", "raises"}
    /\ \E nm \in 0..MaxInitObjs, nl \in 0..MaxInitObjs, nc \in 0..MaxInitObjs,
          nb \in 0..MaxInitObjs, ext \in {0, 1},
          has \in BOOLEAN, linked \in BOOLEAN,
          mats \in SUBSET {"Material", "TerrainMaterial"} :
         LET n == nm + nl + nc + (IF has THEN nb ELSE 0)
         IN  /\ (~has) => (nb = 0 /\ ext = 0 /\ ~linked)
             /\ objects = InitObjects(nm, nl, nc, IF has THEN nb ELSE 0)
             /\ scene_objects = 1..(nm + nl + nc)
             /\ collections =
                  IF has
                  THEN "Buildings" :> [objs |-> (nm + nl + nc + 1)..n,
                                       in_scene |-> linked, ext_users |-> ext]
                  ELSE <<>>
             /\ materials = InitMaterials(mats, n + 1)
             /\ light_data = nl
             /\ camera_data = nc
             /\ scene_camera = IF nc > 0 THEN nm + nl + 1 ELSE 0
             /\ next_id = n + 4
    /\ InitRender
    /\ ScriptStart

\* An empty starting scene, grids and building parameters of every shape.
InitGeom ==
    /\ grid_size \in {Num(2), Num(3)}
    /\ x_subdivisions \in 0..MaxSubX
    /\ y_subdivisions \in SubdivisionsY
    /\ \E sf \in {<<Zero, Num(1)>>, <<Num(1), Zero>>, <<Num(1), Num(1)>>} :
         /\ terrain_height_scale = sf[1]
         /\ terrain_wave_frequency = sf[2]
    /\ building_min_height = Num(1)
    /\ building_max_height \in {Num(1), Num(3)}
    /\ street_width_factor \in {Rat(-1, 2), Zero, Half, Num(1)}
    /\ building_embed_depth = Rat(1, 10)
    /\ host_gpu = "ok"
    /\ objects = <<>>
    /\ scene_objects = {}
    /\ collections = <<>>
    /\ materials = <<>>
    /\ light_data = 0
    /\ camera_data = 0
    /\ scene_camera = 0
    /\ next_id = 1
    /\ InitRender
    /\ ScriptStart

Next == ClearScene \/ CreateTerrain \/ CreateBuildings \/ SetupScene \/ Rerun

NextGeom == ClearScene \/ CreateTerrain \/ CreateBuildings \/ SetupScene

Spec == Init /\ [][Next]_vars

SpecGeom == InitGeom /\ [][NextGeom]_vars

\* ------------------------------------------------------------- properties
OfType(objs, type) == {i \in DOMAIN objs : objs[i].type = type}

RunEnded == pc = "done"

AxisIsZero == x_subdivisions = 0 \/ y_subdivisions = 0

Placed == pc \in {"setup", "done"} /\ ~AxisIsZero

Building(k) == objects[built[k]]

Lo(k, axis) == RSub(Building(k).location[axis],
                    RDiv(Building(k).dimensions[axis], Num(2)))

Hi(k, axis) == RAdd(Building(k).location[axis],
                    RDiv(Building(k).dimensions[axis], Num(2)))

Columns == x_subdivisions + 1

\* C1: after the second full run there is exactly one light, one camera and
\* two materials, and as many mesh objects as one run makes (the terrain plus
\* one building per terrain vertex).
C1_TwoRunsLeaveOneGeneration ==
    (RunEnded /\ run = 2) =>
        /\ Cardinality(OfType(objects, "LIGHT")) = 1
        /\ Cardinality(OfType(objects, "CAMERA")) = 1
        /\ Cardinality(DOMAIN materials) = 2
        /\ Cardinality(OfType(objects, "MESH")) =
             1 + (IF AxisIsZero
                  THEN 0 ELSE (x_subdivisions + 1) * (y_subdivisions + 1))

\* C2 as stated: setup_scene reuses the light, the camera and the materials
\* that exist, deleting or replacing none of them.
C2_DressingReused ==
    [][(pc = "setup" /\ pc' = "done") =>
          /\ \A i \in OfType(objects, "LIGHT") \cup OfType(objects, "CAMERA") :
                i \in DOMAIN objects'
          /\ \A n \in DOMAIN materials :
                n \in DOMAIN materials' /\ materials'[n] = materials[n]]_vars

\* C2 amended: setup_scene upserts the two materials by name (an existing one
\* keeps its identity, a missing one is created, no other material changes);
\* the lights and cameras of the view layer are deleted and one new light and
\* one new camera are linked, so the view layer ends with one of each.
C2_MaterialsUpsertedDressingReplaced ==
    [][(pc = "setup" /\ pc' = "done") =>
          /\ DOMAIN materials' =
                DOMAIN materials \cup {"TerrainMaterial", "BuildingMaterial"}
          /\ \A n \in DOMAIN materials : materials'[n] = materials[n]
          /\ \A n \in DOMAIN materials' \ DOMAIN materials :
                materials'[n] >= next_id
          /\ \A t \in {"LIGHT", "CAMERA"} :
                LET before == SelectedByType(objects, scene_objects,
                                             collections, {t})
                    after == SelectedByType(objects', scene_objects',
                                            collections', {t})
                IN  /\ Cardinality(after) = 1
                    /\ after \cap DOMAIN objects = {}
                    /\ before \cap DOMAIN objects' = {}]_vars

C2_Witness ==
    /\ RunEnded
    /\ run = 2
    /\ light_data >= 2
    /\ camera_data >= 2
    /\ materials["TerrainMaterial"] < materials["BuildingMaterial"]

\* C3: with a subdivision count of 0, create_buildings prints an error and
\* returns with no building made and the scene as it was (no Buildings
\* collection created or linked); the terrain still exists and the run goes
\* on to setup_scene.
C3_ZeroSubdivisionsAbort ==
    [][(pc = "buildings" /\ AxisIsZero) =>
          /\ pc' = "setup"
          /\ "ErrSubdivisionsZero" \in printed'
          /\ built' = <<>>
          /\ objects' = objects
          /\ scene_objects' = scene_objects
          /\ collections' = collections
          /\ materials' = materials
          /\ terrain_object' \in OfType(objects', "MESH")]_vars

C3_Witness ==
    /\ pc = "setup"
    /\ y_subdivisions = 0
    /\ "ErrSubdivisionsZero" \in printed
    /\ terrain_object \in OfType(objects, "MESH")
    /\ "Buildings" \notin DOMAIN collections

\* C4: with 0 < street_width_factor <= 1, any two distinct buildings of one
\* placement have footprints whose interiors are disjoint on x or on y.
C4_NoOverlap ==
    (Placed /\ RLt(Zero, street_width_factor)
            /\ RLe(street_width_factor, Num(1))) =>
        \A i, j \in DOMAIN built :
            i # j =>
                \E axis \in {1, 2} :
                    RLe(Hi(i, axis), Lo(j, axis)) \/ RLe(Hi(j, axis), Lo(i, axis))

C4_Witness ==
    /\ Placed
    /\ street_width_factor = Half
    /\ Len(built) >= 6
    /\ RLt(Zero, Building(1).dimensions[1])

\* The street gap between building k and its neighbour k2 along an axis.
Gap(k, k2, axis) == RSub(Lo(k2, axis), Hi(k, axis))

NeighboursX == {<<k, k + 1>> : k \in {n \in DOMAIN built : n % Columns # 0}}

NeighboursY == {<<k, k + Columns>> :
                   k \in {n \in DOMAIN built : n + Columns \in DOMAIN built}}

StreetShareInUnit ==
    RLe(Zero, street_width_factor) /\ RLe(street_width_factor, Num(1))

\* C5 as stated: the gap between buildings at adjacent vertices equals
\* grid_size * street_width_factor.
C5_GapIsExtentShare ==
    (Placed /\ StreetShareInUnit) =>
        /\ \A p \in NeighboursX :
              Gap(p[1], p[2], 1) = RMul(grid_size, street_width_factor)
        /\ \A p \in NeighboursY :
              Gap(p[1], p[2], 2) = RMul(grid_size, street_width_factor)

\* C5 amended: the gap between buildings at adjacent vertices along an axis
\* equals (grid_size / subdivisions of that axis) * street_width_factor.
C5_GapIsCellShare ==
    (Placed /\ StreetShareInUnit) =>
        /\ \A p \in NeighboursX :
              Gap(p[1], p[2], 1) =
                 RMul(RDiv(grid_size, Num(x_subdivisions)), street_width_factor)
        /\ \A p \in NeighboursY :
              Gap(p[1], p[2], 2) =
                 RMul(RDiv(grid_size, Num(y_subdivisions)), street_width_factor)

C5_Witness ==
    /\ Placed
    /\ y_subdivisions = 2
    /\ street_width_factor = Half
    /\ NeighboursX # {}
    /\ NeighboursY # {}
    /\ \E p \in NeighboursY : Gap(p[1], p[2], 2) = Rat(grid_size[1], 4)

\* C6: the bottom face of every building (centre z minus half its height)
\* is at the terrain height of its vertex minus building_embed_depth.
C6_BaseBelowTerrain ==
    Placed =>
        \A k \in DOMAIN built :
            Lo(k, 3) = RSub(World(objects[terrain_object],
                                  objects[terrain_object].verts[k])[3],
                            building_embed_depth)

C6_Witness ==
    /\ Placed
    /\ \E k, m \in DOMAIN built :
          /\ Building(k).dimensions[3] = Num(3)
          /\ Building(m).dimensions[3] = Num(1)
          /\ objects[terrain_object].verts[k][3] # Zero
          /\ Lo(k, 3) # Lo(m, 3)

\* C7: setup_scene ends with the device GPU when the host takes it, and CPU
\* with a diagnostic printed when the host raises or does not keep GPU; in
\* every case samples, denoising and the two materials are set.
C7_DeviceFallback ==
    RunEnded =>
        /\ render.device \in {"GPU", "CPU"}
        /\ (host_gpu = "ok") => render.device = "GPU"
        /\ (host_gpu # "ok") =>
              /\ render.device = "CPU"
              /\ printed \cap {"GpuNotEffectiveUsingCpu", "GpuFailedUsingCpu"} # {}
        /\ render.samples = 128
        /\ render.use_denoising
        /\ {"TerrainMaterial", "BuildingMaterial"} \subseteq DOMAIN materials

C7_Witness ==
    /\ RunEnded
    /\ host_gpu = "raises"
    /\ render.device = "CPU"
    /\ "GpuFailedUsingCpu" \in printed

\* C8: with terrain_height_scale = 0 every vertex of the terrain has z = 0,
\* whatever the wave frequency and the vertex position.
C8_FlatWhenScaleZero ==
    (terrain_object # 0 /\ terrain_height_scale = Zero) =>
        \A k \in DOMAIN objects[terrain_object].verts :
            objects[terrain_object].verts[k][3] = Zero

C8_Witness ==
    /\ terrain_object # 0
    /\ terrain_height_scale = Zero
    /\ terrain_wave_frequency # Zero
    /\ Len(objects[terrain_object].verts) >= 6
    /\ \E k \in DOMAIN objects[terrain_object].verts :
          objects[terrain_object].verts[k][1] # Zero

\* C9: with nonzero subdivisions there is exactly one building per terrain
\* vertex, at that vertex's world x and y.
C9_OneBuildingPerVertex ==
    Placed =>
        LET terrain == objects[terrain_object]
        IN  /\ Len(built) = Len(terrain.verts)
            /\ \A k \in DOMAIN built :
                  /\ built[k] \in OfType(objects, "MESH")
                  /\ Building(k).location[1] = World(terrain, terrain.verts[k])[1]
                  /\ Building(k).location[2] = World(terrain, terrain.verts[k])[2]
            /\ \A k, m \in DOMAIN built : built[k] = built[m] => k = m
            /\ collections["Buildings"].objs = {built[k] : k \in DOMAIN built}
            /\ OfType(objects, "MESH") =
                  {terrain_object} \cup collections["Buildings"].objs

C9_Witness ==
    /\ Placed
    /\ Len(built) = 6
    /\ Cardinality({Building(k).location : k \in DOMAIN built}) >= 2

\* C10: after a run with nonzero subdivisions every building is linked to the
\* Buildings collection only, and that collection is a child of the scene
\* collection.
C10_BuildingsReachable ==
    (RunEnded /\ ~AxisIsZero) =>
        /\ "Buildings" \in DOMAIN collections
        /\ collections["Buildings"].in_scene
        /\ \A k \in DOMAIN built :
              /\ built[k] \in collections["Buildings"].objs
              /\ built[k] \notin scene_objects

====
